---- MODULE Spec2Model ----
(***************************************************************************)
(* A model of the rendering core of Rust-Raytracer: Color addition,        *)
(* Sphere and Plane intersection, Scene::trace, the recursion of           *)
(* Scene::get_color and the pixel loop of render.                          *)
(*                                                                         *)
(* Numbers.  An f64 is modelled by an integer: the finite values are       *)
(* -F64_MAX..F64_MAX, INFINITY is F64_MAX + 1, and an arithmetic result    *)
(* above F64_MAX overflows to INFINITY as in IEEE 754.  NaN is outside     *)
(* the modelled domain.  Lengths are counted in units of SHADOW_BIAS, so   *)
(* that the bias is one unit.  Fractions (albedo, reflectiveness,          *)
(* brightness, colour intensities) are fixed-point numbers with FP units   *)
(* to 1.0.  Scenes of the shading model lie on the z axis, where every     *)
(* square root and every division of the code is exact in integers.        *)
(***************************************************************************)
EXTENDS Integers, Sequences, FiniteSets

VARIABLES
    scene,        \* Scene { camera, elements, lights, sky_color }
    ray,          \* the ray under consideration (primary ray, or the ray given to intersect)
    max_depth,    \* nb_pass, handed to get_color as max_depth (u8)
    object,       \* the Option<(Renderable, Hit)> that Scene::trace returned for ray
    stack,        \* the call stack of Scene::get_color, one frame per invocation
    ret,          \* the Color the invocation on top of the stack returns
    invocations,  \* number of get_color invocations made for the primary ray
    shadow,       \* what the light loop of get_color did for the light it handled last
    pc,           \* position of the program
    lhs,          \* Color += : left operand, and the result once the operation has run
    rhs,          \* Color += : right operand
    sphere,       \* the Sphere given to Sphere::intersect
    hit,          \* the Option<Hit> that Sphere::intersect returned
    pixel_x,      \* render: outer loop variable
    pixel_y,      \* render: inner loop variable
    image         \* render: the pixels put so far

vars == <<scene, ray, max_depth, object, stack, ret, invocations, shadow, pc,
          lhs, rhs, sphere, hit, pixel_x, pixel_y, image>>

----------------------------------------------------------------------------
(* The number domain: the largest finite f64 of the model, infinity, and the *)
(* fixed-point unit of the fractions                                         *)

F64_MAX == 1000000
INFINITY == F64_MAX + 1
FP == 1000

(* Program constants: the largest u8, and the shadow bias (the unit of length) *)

U8_MAX == 255
SHADOW_BIAS == 1

(* Bounds of the inputs *)

MaxElements == 3
MaxShadeElements == 2
MaxLights == 2
MaxSmallDepth == 2
MaxRadius == 5
MaxCoord == 6
MaxDim == 4

----------------------------------------------------------------------------
(* Option *)

None == [tag |-> "None"]
Some(v) == [tag |-> "Some", val |-> v]

(* f64 overflow: a result beyond the largest finite value is infinite *)
F64(x) == IF x > F64_MAX THEN INFINITY ELSE IF x < -F64_MAX THEN -INFINITY ELSE x

Max(a, b) == IF a >= b THEN a ELSE b
Min(a, b) == IF a <= b THEN a ELSE b

RECURSIVE SqrtFrom(_, _)
SqrtFrom(n, k) == IF (k + 1) * (k + 1) > n THEN k ELSE SqrtFrom(n, k + 1)
Sqrt(n) == SqrtFrom(n, 0)

----------------------------------------------------------------------------
(* Vector3 *)

Vector3_new(x, y, z) == [x |-> x, y |-> y, z |-> z]
Vector3_zero == Vector3_new(0, 0, 0)
Add(a, b) == Vector3_new(a.x + b.x, a.y + b.y, a.z + b.z)
Sub(a, b) == Vector3_new(a.x - b.x, a.y - b.y, a.z - b.z)
Neg(a) == Vector3_new(-a.x, -a.y, -a.z)
Scale(a, s) == Vector3_new(a.x * s, a.y * s, a.z * s)
Dot(a, b) == a.x * b.x + a.y * b.y + a.z * b.z
LengthSq(a) == Dot(a, a)
Length(a) == Sqrt(LengthSq(a))
SignedDiv(n, d) == IF n >= 0 THEN n \div d ELSE -((-n) \div d)
Normalize(a) ==
    LET l == Length(a)
    IN  Vector3_new(SignedDiv(a.x, l), SignedDiv(a.y, l), SignedDiv(a.z, l))

----------------------------------------------------------------------------
(* Ray, Hit *)

Ray_new(origin, direction) == [origin |-> origin, direction |-> direction]
Hit_new(distance, point, normal) == [distance |-> distance, point |-> point, normal |-> normal]

Ray_compute_reflection_ray(normal, old_direction, point) ==
    [origin |-> Add(point, Scale(normal, SHADOW_BIAS)),
     direction |-> Sub(old_direction, Scale(Scale(normal, 2), Dot(old_direction, normal)))]

----------------------------------------------------------------------------
(* Color *)

Color_new(r, g, b, a) == [r |-> r, g |-> g, b |-> b, a |-> a]
Color_black == Color_new(0, 0, 0, 255)

(* one channel of += done by the plain, wrapping u8 addition *)
AddChannelWrapping(a, b) == (a + b) % (U8_MAX + 1)

AddChannel(a, b) == IF a + b < 255 THEN (a + b) % (U8_MAX + 1) ELSE 255

(* += whose alpha channel is replaced by the right operand's *)
Color_add_assign_alpha_of_rhs(self, other) ==
    Color_new(AddChannel(self.r, other.r), AddChannel(self.g, other.g),
              AddChannel(self.b, other.b), other.a)

Color_add_assign(self, other) ==
    Color_new(AddChannel(self.r, other.r), AddChannel(self.g, other.g),
              AddChannel(self.b, other.b), AddChannel(self.a, other.a))

----------------------------------------------------------------------------
(* Sphere, Plane, Shape *)

Sphere_new(origin, radius) == [kind |-> "SPHERE", origin |-> origin, radius |-> radius]
Plane_new(point, normal) == [kind |-> "PLANE", point |-> point, normal |-> normal]

(* the choice among the two parameters with && written as || *)
SelectIntersectionEither(intersect_0, intersect_1) ==
    IF intersect_0 < 0 \/ intersect_1 < 0 THEN None
    ELSE IF intersect_0 >= 0 THEN Some(intersect_0)
    ELSE Some(intersect_1)

SelectIntersection(intersect_0, intersect_1) ==
    IF intersect_0 < 0 /\ intersect_1 < 0 THEN None
    ELSE IF intersect_0 >= 0 THEN Some(intersect_0)
    ELSE Some(intersect_1)

Sphere_intersect(self, r) ==
    LET ray_origin_to_sphere == Sub(self.origin, r.origin)
        ray_origin_to_sphere_proj == Dot(ray_origin_to_sphere, r.direction)
        sphere_center_to_proj_squared ==
            Dot(ray_origin_to_sphere, ray_origin_to_sphere)
                - ray_origin_to_sphere_proj * ray_origin_to_sphere_proj
    IN  IF sphere_center_to_proj_squared > self.radius * self.radius THEN None
        ELSE
          LET thickness == Sqrt(self.radius * self.radius - sphere_center_to_proj_squared)
              i0 == ray_origin_to_sphere_proj - thickness
              i1 == ray_origin_to_sphere_proj + thickness
              intersect_0 == IF i0 > i1 THEN i1 ELSE i0
              intersect_1 == IF i0 > i1 THEN i0 ELSE i1
              chosen == SelectIntersection(intersect_0, intersect_1)
          IN  IF chosen = None THEN None
              ELSE LET hit_point == Add(r.origin, Scale(r.direction, chosen.val))
                       normal == Normalize(Sub(hit_point, self.origin))
                   IN  Some(Hit_new(chosen.val, hit_point, normal))

Plane_intersect(self, r) ==
    LET denom == Dot(self.normal, r.direction)
    IN  IF denom > 0
        THEN LET origin_to_plane == Sub(self.point, r.origin)
                 distance == F64(SignedDiv(Dot(origin_to_plane, self.normal), denom))
             IN  IF distance >= 0
                 THEN Some(Hit_new(distance, Add(r.origin, Scale(r.direction, distance)),
                                   Neg(self.normal)))
                 ELSE None
        ELSE None

Shape_intersect(self, r) ==
    IF self.kind = "SPHERE" THEN Sphere_intersect(self, r) ELSE Plane_intersect(self, r)

----------------------------------------------------------------------------
(* Material, Renderable, Scene::trace *)

Material_new(base_color, albedo, reflectiveness) ==
    [base_color |-> base_color, albedo |-> albedo, reflectiveness |-> reflectiveness]
Renderable_new(shape, material) == [shape |-> shape, material |-> material]

(* the comparison of trace with > written as >= *)
CloserOrEqual(min_distance, distance) == min_distance >= distance

Closer(min_distance, distance) == min_distance > distance

RECURSIVE TraceLoop(_, _, _, _, _)
TraceLoop(elements, r, i, min_distance, obj) ==
    IF i > Len(elements) THEN obj
    ELSE LET renderable == elements[i]
             h == Shape_intersect(renderable.shape, r)
         IN  IF h # None /\ Closer(min_distance, h.val.distance)
             THEN TraceLoop(elements, r, i + 1, h.val.distance,
                            Some([renderable |-> renderable, hit |-> h.val]))
             ELSE TraceLoop(elements, r, i + 1, min_distance, obj)

Scene_trace(self, r) == TraceLoop(self.elements, r, 1, F64_MAX, None)

----------------------------------------------------------------------------
(* Lights *)

PI_NUM == 22
PI_DEN == 7

DirectionalLight_new(direction, brightness, color) ==
    [kind |-> "DIRECTIONAL", direction |-> direction, brightness |-> brightness, color |-> color]
PointLight_new(position, brightness, color) ==
    [kind |-> "POINT", position |-> position, brightness |-> brightness, color |-> color]

Light_get_direction(self, point) ==
    IF self.kind = "POINT" THEN Normalize(Sub(self.position, point))
    ELSE Neg(Normalize(self.direction))

Light_get_brightness(self, point) ==
    IF self.kind = "POINT"
    THEN LET light_distance_sq == LengthSq(Sub(self.position, point))
         IN  (self.brightness * PI_DEN) \div (4 * PI_NUM * light_distance_sq)
    ELSE self.brightness

Light_get_color(self) == self.color

Light_get_distance(self, point) ==
    IF self.kind = "POINT" THEN Length(Sub(self.position, point)) ELSE INFINITY

----------------------------------------------------------------------------
(* Scene::get_color, one invocation per frame of stack *)

(* the three ways of get_color, with the depth test written > *)
BranchDepthExceeded(hit_obj, depth, maxd) ==
    IF hit_obj = None THEN "sky" ELSE IF depth > maxd THEN "black" ELSE "shade"

(* the three ways of get_color, with the depth test made before the hit test *)
BranchDepthFirst(hit_obj, depth, maxd) ==
    IF depth >= maxd THEN "black" ELSE IF hit_obj = None THEN "sky" ELSE "shade"

Branch(hit_obj, depth, maxd) ==
    IF hit_obj = None THEN "sky" ELSE IF depth >= maxd THEN "black" ELSE "shade"

(* the shadow test with <= written < *)
OccludedStrictly(hit_light, light_distance) == hit_light.distance < light_distance

Occluded(hit_light, light_distance) == hit_light.distance <= light_distance

(* the reflection test with > written >= *)
ReflectsOrZero(material) == material.reflectiveness >= 0

Reflects(material) == material.reflectiveness > 0

(* light_brightness after the shadow test of the light loop *)
LightBrightness(self, light, h) ==
    LET light_direction == Light_get_direction(light, h.point)
        light_ray == Ray_new(Add(h.point, Scale(h.normal, SHADOW_BIAS)), light_direction)
        shadow_obj == Scene_trace(self, light_ray)
    IN  IF shadow_obj # None /\ Occluded(shadow_obj.val.hit, Light_get_distance(light, h.point))
        THEN 0
        ELSE Light_get_brightness(light, h.point)

(* what one light adds to one colour channel *)
Diffuse(light_channel, light_power, amount_reflected, base_channel) ==
    LET light_part == (light_channel * FP) \div 255
        lit == (light_part * light_power) \div FP
        reflected == (lit * amount_reflected) \div FP
    IN  (reflected * base_channel) \div 255

Clamp01(c) == Max(Min(c, FP), 0)

(* (c * 255.0) as u8 *)
ToU8(c) == Max(Min((c * 255) \div FP, U8_MAX), 0)

NextDepth(depth) == (depth + 1) % (U8_MAX + 1)

Frame(r, hit_obj, depth) ==
    [ray |-> r, hit_obj |-> hit_obj, depth |-> depth, light |-> 1,
     color_r |-> 0, color_g |-> 0, color_b |-> 0, color |-> None,
     reflected |-> None, traces |-> 0, calls |-> 0]

Top == stack[Len(stack)]
SetTop(f) == [stack EXCEPT ![Len(stack)] = f]

PrimeRay == Ray_new(Vector3_zero, Normalize(Vector3_new(0, 0, -1)))

NotShade == <<lhs, rhs, sphere, hit, pixel_x, pixel_y, image>>

(* render, lines 282-283: trace the primary ray and call get_color at depth 0 *)
AtPrimaryRay == pc = "prime"

PrimaryRay ==
    /\ AtPrimaryRay
    /\ object' = Scene_trace(scene, ray)
    /\ stack' = <<Frame(ray, object', 0)>>
    /\ invocations' = 1
    /\ pc' = "call"
    /\ UNCHANGED <<scene, ray, max_depth, ret, shadow>>
    /\ UNCHANGED NotShade

AtSky == pc = "call" /\ Branch(Top.hit_obj, Top.depth, max_depth) = "sky"

GetColorSky ==
    /\ AtSky
    /\ ret' = scene.sky_color
    /\ pc' = "return"
    /\ UNCHANGED <<scene, ray, max_depth, object, stack, invocations, shadow>>
    /\ UNCHANGED NotShade

AtBlack == pc = "call" /\ Branch(Top.hit_obj, Top.depth, max_depth) = "black"

GetColorBlack ==
    /\ AtBlack
    /\ ret' = Color_black
    /\ pc' = "return"
    /\ UNCHANGED <<scene, ray, max_depth, object, stack, invocations, shadow>>
    /\ UNCHANGED NotShade

(* one iteration of the loop over scene.lights *)
AtLight ==
    /\ pc = "call"
    /\ Branch(Top.hit_obj, Top.depth, max_depth) = "shade"
    /\ Top.light <= Len(scene.lights)

GetColorLight ==
    /\ AtLight
    /\ LET renderable == Top.hit_obj.val.renderable
           h == Top.hit_obj.val.hit
           light == scene.lights[Top.light]
           amount_reflected == (renderable.material.albedo * PI_DEN) \div PI_NUM
           light_direction == Light_get_direction(light, h.point)
           light_brightness == LightBrightness(scene, light, h)
           light_power == Max(Dot(h.normal, light_direction), 0) * light_brightness
           lc == Light_get_color(light)
           base == renderable.material.base_color
       IN  /\ stack' = SetTop([Top EXCEPT
                  !.light = @ + 1,
                  !.traces = @ + 1,
                  !.color_r = @ + Diffuse(lc.r, light_power, amount_reflected, base.r),
                  !.color_g = @ + Diffuse(lc.g, light_power, amount_reflected, base.g),
                  !.color_b = @ + Diffuse(lc.b, light_power, amount_reflected, base.b)])
           /\ shadow' = Some([light |-> light, point |-> h.point,
                              light_ray |-> Ray_new(Add(h.point, Scale(h.normal, SHADOW_BIAS)),
                                                    light_direction),
                              full |-> Light_get_brightness(light, h.point),
                              light_brightness |-> light_brightness])
    /\ UNCHANGED <<scene, ray, max_depth, object, ret, invocations, pc>>
    /\ UNCHANGED NotShade

(* after the loop, reflectiveness <= 0: the diffuse colour is the result *)
AtDiffuse ==
    /\ pc = "call"
    /\ Branch(Top.hit_obj, Top.depth, max_depth) = "shade"
    /\ Top.light > Len(scene.lights)
    /\ ~Reflects(Top.hit_obj.val.renderable.material)

GetColorDiffuse ==
    /\ AtDiffuse
    /\ ret' = Color_new(ToU8(Clamp01(Top.color_r)), ToU8(Clamp01(Top.color_g)),
                        ToU8(Clamp01(Top.color_b)), 255)
    /\ pc' = "return"
    /\ UNCHANGED <<scene, ray, max_depth, object, stack, invocations, shadow>>
    /\ UNCHANGED NotShade

(* after the loop, reflectiveness > 0: trace the reflection ray and recurse *)
AtReflect ==
    /\ pc = "call"
    /\ Branch(Top.hit_obj, Top.depth, max_depth) = "shade"
    /\ Top.light > Len(scene.lights)
    /\ Reflects(Top.hit_obj.val.renderable.material)

GetColorReflect ==
    /\ AtReflect
    /\ LET material == Top.hit_obj.val.renderable.material
           h == Top.hit_obj.val.hit
           reflection_ray == Ray_compute_reflection_ray(h.normal, Top.ray.direction, h.point)
           color_r == (Clamp01(Top.color_r) * (FP - material.reflectiveness)) \div FP
           color_g == (Clamp01(Top.color_g) * (FP - material.reflectiveness)) \div FP
           color_b == (Clamp01(Top.color_b) * (FP - material.reflectiveness)) \div FP
           color == Color_new(ToU8(color_r), ToU8(color_g), ToU8(color_b), 255)
           new_obj == Scene_trace(scene, reflection_ray)
       IN  stack' = Append(SetTop([Top EXCEPT !.color = Some(color), !.traces = @ + 1,
                                                !.calls = @ + 1]),
                           Frame(reflection_ray, new_obj, NextDepth(Top.depth)))
    /\ invocations' = invocations + 1
    /\ UNCHANGED <<scene, ray, max_depth, object, ret, shadow, pc>>
    /\ UNCHANGED NotShade

(* the recursive call returns: color += its result, and color is returned in turn *)
AtReturnToCaller == pc = "return" /\ Len(stack) > 1

ReturnToCaller ==
    /\ AtReturnToCaller
    /\ LET caller == stack[Len(stack) - 1]
       IN  /\ ret' = Color_add_assign(caller.color.val, ret)
           /\ stack' = SubSeq(stack, 1, Len(stack) - 2)
                          \o <<[caller EXCEPT !.reflected = Some(ret), !.color = Some(ret')]>>
    /\ UNCHANGED <<scene, ray, max_depth, object, invocations, shadow, pc>>
    /\ UNCHANGED NotShade

(* the call made by render returns: ret is the colour of the pixel *)
AtReturnToRender == pc = "return" /\ Len(stack) = 1

ReturnToRender ==
    /\ AtReturnToRender
    /\ stack' = <<>>
    /\ pc' = "done"
    /\ UNCHANGED <<scene, ray, max_depth, object, ret, invocations, shadow>>
    /\ UNCHANGED NotShade

----------------------------------------------------------------------------
(* Values shared by the specifications *)

SeqsUpTo(S, n) == UNION {[1..k -> S] : k \in 0..n}

Idle == "idle"
NoCamera == [width |-> 0, height |-> 0]
NoScene == [camera |-> NoCamera, elements |-> <<>>, lights |-> <<>>, sky_color |-> Color_black]

AxisZ == Vector3_new(0, 0, 1)
AxisX == Vector3_new(1, 0, 0)

----------------------------------------------------------------------------
(* Color += on its own: the operands are drawn from the 8-bit channel values *)

ChannelSamples == {0, 5, 250, 255}

InitColor ==
    /\ \/ /\ lhs \in [r : ChannelSamples, g : ChannelSamples, b : ChannelSamples, a : ChannelSamples]
          /\ rhs \in [r : ChannelSamples, g : ChannelSamples, b : ChannelSamples, a : ChannelSamples]
       \/ /\ lhs \in [r : 0..U8_MAX, g : {0}, b : {0}, a : {0}]
          /\ rhs \in [r : 0..U8_MAX, g : {0}, b : {0}, a : {0}]
    /\ pc = "add"
    /\ scene = NoScene /\ ray = Idle /\ max_depth = 0 /\ object = None /\ stack = <<>>
    /\ ret = Idle /\ invocations = 0 /\ shadow = None /\ sphere = Idle /\ hit = None
    /\ pixel_x = 0 /\ pixel_y = 0 /\ image = {}

AddAssign ==
    /\ pc = "add"
    /\ lhs' = Color_add_assign(lhs, rhs)
    /\ pc' = "added"
    /\ UNCHANGED <<scene, ray, max_depth, object, stack, ret, invocations, shadow,
                   rhs, sphere, hit, pixel_x, pixel_y, image>>

NextColor == AddAssign

SpecColor == InitColor /\ [][NextColor]_vars

----------------------------------------------------------------------------
(* Sphere::intersect on its own: lattice spheres and axis-parallel unit rays, *)
(* kept to the inputs whose square root is exact                               *)

IsSquare(n) == n >= 0 /\ Sqrt(n) * Sqrt(n) = n

(* squared distance from point p to the point of ray r at parameter t *)
DistSqAt(r, t, p) == LengthSq(Sub(Add(r.origin, Scale(r.direction, t)), p))

ParamRange == -(2 * MaxCoord + MaxRadius + 2)..(2 * MaxCoord + MaxRadius + 2)

(* squared distance of closest approach of the line of r to p *)
ClosestSq(r, p) ==
    LET t == CHOOSE t \in ParamRange : \A u \in ParamRange : DistSqAt(r, t, p) <= DistSqAt(r, u, p)
    IN  DistSqAt(r, t, p)

SphereInputs ==
    {Sphere_new(Vector3_new(x, 0, z), radius) :
        x \in -MaxCoord..MaxCoord, z \in -MaxCoord..MaxCoord, radius \in 1..MaxRadius}

RayInputs ==
    {Ray_new(o, d) : o \in {Vector3_zero, Vector3_new(1, 0, -2)},
                     d \in {AxisZ, Neg(AxisZ), AxisX, Neg(AxisX)}}

InitSphere ==
    /\ sphere \in SphereInputs
    /\ ray \in RayInputs
    /\ \/ ClosestSq(ray, sphere.origin) > sphere.radius * sphere.radius
       \/ IsSquare(sphere.radius * sphere.radius - ClosestSq(ray, sphere.origin))
    /\ hit = None
    /\ pc = "intersect"
    /\ scene = NoScene /\ max_depth = 0 /\ object = None /\ stack = <<>>
    /\ ret = Idle /\ invocations = 0 /\ shadow = None /\ lhs = Idle /\ rhs = Idle
    /\ pixel_x = 0 /\ pixel_y = 0 /\ image = {}

Intersect ==
    /\ pc = "intersect"
    /\ hit' = Sphere_intersect(sphere, ray)
    /\ pc' = "intersected"
    /\ UNCHANGED <<scene, ray, max_depth, object, stack, ret, invocations, shadow,
                   lhs, rhs, sphere, pixel_x, pixel_y, image>>

NextSphere == Intersect

SpecSphere == InitSphere /\ [][NextSphere]_vars

----------------------------------------------------------------------------
(* Scene::trace on its own *)

Matte == Material_new(Color_new(200, 50, 50, 128), 180, 0)
Mirror == Material_new(Color_new(255, 255, 255, 64), 500, FP)
HalfMirror == Material_new(Color_new(0, 255, 0, 0), FP, FP \div 2)

TraceRenderables ==
    { Renderable_new(Sphere_new(Vector3_new(0, 0, -20), 4), Matte),
      Renderable_new(Plane_new(Vector3_new(0, 0, -16), Neg(AxisZ)), Mirror),
      Renderable_new(Plane_new(Vector3_new(0, 0, -16), Neg(AxisZ)), HalfMirror),
      Renderable_new(Sphere_new(Vector3_new(0, 0, -8), 2), Mirror),
      Renderable_new(Plane_new(Vector3_new(0, 0, -F64_MAX), Neg(AxisZ)), Matte),
      Renderable_new(Plane_new(Vector3_new(0, 0, 10), AxisZ), Matte) }

TraceRays ==
    {Ray_new(o, d) : o \in {Vector3_zero, Vector3_new(0, 0, 1)}, d \in {AxisZ, Neg(AxisZ)}}

InitTrace ==
    /\ scene \in [camera : {NoCamera}, elements : SeqsUpTo(TraceRenderables, MaxElements),
                  lights : {<<>>}, sky_color : {Color_black}]
    /\ ray \in TraceRays
    /\ object = None
    /\ pc = "trace"
    /\ max_depth = 0 /\ stack = <<>> /\ ret = Idle /\ invocations = 0 /\ shadow = None
    /\ lhs = Idle /\ rhs = Idle /\ sphere = Idle /\ hit = None
    /\ pixel_x = 0 /\ pixel_y = 0 /\ image = {}

Trace ==
    /\ pc = "trace"
    /\ object' = Scene_trace(scene, ray)
    /\ pc' = "traced"
    /\ UNCHANGED <<scene, ray, max_depth, stack, ret, invocations, shadow,
                   lhs, rhs, sphere, hit, pixel_x, pixel_y, image>>

NextTrace == Trace

SpecTrace == InitTrace /\ [][NextTrace]_vars

----------------------------------------------------------------------------
(* Scene::get_color for one primary ray: scenes on the z axis, the camera at *)
(* the origin looking down -z                                                *)

White == Color_new(255, 255, 255, 255)
Amber == Color_new(255, 200, 100, 0)

SphereFront == Renderable_new(Sphere_new(Vector3_new(0, 0, -20), 4), Matte)
MirrorFront == Renderable_new(Plane_new(Vector3_new(0, 0, -40), Neg(AxisZ)), Mirror)
MirrorBehind == Renderable_new(Plane_new(Vector3_new(0, 0, 10), AxisZ), HalfMirror)
OccluderNear == Renderable_new(Plane_new(Vector3_new(0, 0, -12), AxisZ), Matte)
OccluderAtLight == Renderable_new(Plane_new(Vector3_new(0, 0, -5), AxisZ), Matte)
PlaneAtMax == Renderable_new(Plane_new(Vector3_new(0, 0, F64_MAX), AxisZ), Matte)

ShadeRenderables ==
    {SphereFront, MirrorFront, MirrorBehind, OccluderNear, OccluderAtLight, PlaneAtMax}
Mirrors == {MirrorFront, MirrorBehind}

Sun == DirectionalLight_new(Vector3_new(0, 0, -2), 20 * FP, White)
Lamp == PointLight_new(Vector3_new(0, 0, -6), 1000 * FP, Amber)
ShadeLights == {Sun, Lamp}

SkyColors == {Color_new(135, 206, 235, 255), Color_new(10, 20, 30, 100)}

InitShade ==
    /\ \/ /\ max_depth \in 0..MaxSmallDepth
          /\ scene \in [camera : {[width |-> 1, height |-> 1]},
                        elements : SeqsUpTo(ShadeRenderables, MaxShadeElements),
                        lights : SeqsUpTo(ShadeLights, MaxLights),
                        sky_color : SkyColors]
       \/ /\ max_depth = U8_MAX
          /\ scene \in [camera : {[width |-> 1, height |-> 1]},
                        elements : SeqsUpTo(Mirrors, 2),
                        lights : SeqsUpTo(ShadeLights, 1),
                        sky_color : SkyColors]
    /\ ray = PrimeRay
    /\ object = None /\ stack = <<>> /\ ret = Idle /\ invocations = 0 /\ shadow = None
    /\ pc = "prime"
    /\ lhs = Idle /\ rhs = Idle /\ sphere = Idle /\ hit = None
    /\ pixel_x = 0 /\ pixel_y = 0 /\ image = {}

NextShade ==
    \/ PrimaryRay
    \/ GetColorSky
    \/ GetColorBlack
    \/ GetColorLight
    \/ GetColorDiffuse
    \/ GetColorReflect
    \/ ReturnToCaller
    \/ ReturnToRender

SpecShade == InitShade /\ [][NextShade]_vars

----------------------------------------------------------------------------
(* render: the pixel loop *)

(* the assertions of compute_prime_ray with pixel_x compared to the height *)
Camera_assertions_x_against_height(self, pixel_x_screen_space, pixel_y_screen_space) ==
    /\ self.width >= self.height
    /\ pixel_x_screen_space <= self.height
    /\ pixel_y_screen_space <= self.height

Camera_assertions(self, pixel_x_screen_space, pixel_y_screen_space) ==
    /\ self.width >= self.height
    /\ pixel_x_screen_space <= self.width
    /\ pixel_y_screen_space <= self.height

NotRender == <<ray, object, stack, ret, invocations, shadow, lhs, rhs, sphere, hit>>

InitRender ==
    /\ scene \in [camera : [width : 0..MaxDim, height : 0..MaxDim],
                  elements : {<<>>}, lights : {<<>>}, sky_color : {Color_black}]
    /\ max_depth \in {0, U8_MAX}
    /\ pixel_x = 0 /\ pixel_y = 0 /\ image = {}
    /\ pc = "loop"
    /\ ray = Idle /\ object = None /\ stack = <<>> /\ ret = Idle /\ invocations = 0
    /\ shadow = None /\ lhs = Idle /\ rhs = Idle /\ sphere = Idle /\ hit = None

(* the loop body: the primary ray of the pixel is computed and the pixel is put *)
RenderPixel ==
    /\ pc = "loop"
    /\ pixel_x < scene.camera.width
    /\ pixel_y < scene.camera.height
    /\ IF Camera_assertions(scene.camera, pixel_x, pixel_y)
       THEN /\ image' = image \cup {<<pixel_x, pixel_y>>}
            /\ pixel_y' = pixel_y + 1
            /\ pc' = pc
       ELSE /\ pc' = "panic"
            /\ UNCHANGED <<image, pixel_y>>
    /\ UNCHANGED <<scene, max_depth, pixel_x>>
    /\ UNCHANGED NotRender

(* the inner loop is exhausted *)
NextColumn ==
    /\ pc = "loop"
    /\ pixel_x < scene.camera.width
    /\ pixel_y >= scene.camera.height
    /\ pixel_x' = pixel_x + 1
    /\ pixel_y' = 0
    /\ UNCHANGED <<scene, max_depth, image, pc>>
    /\ UNCHANGED NotRender

(* the outer loop is exhausted: image.save is called *)
LoopEnd ==
    /\ pc = "loop"
    /\ pixel_x >= scene.camera.width
    /\ pc' = "save"
    /\ UNCHANGED <<scene, max_depth, pixel_x, pixel_y, image>>
    /\ UNCHANGED NotRender

(* the image writer succeeds or fails; render returns its result *)
Save ==
    /\ pc = "save"
    /\ pc' \in {"ok", "err"}
    /\ UNCHANGED <<scene, max_depth, pixel_x, pixel_y, image>>
    /\ UNCHANGED NotRender

NextRender == RenderPixel \/ NextColumn \/ LoopEnd \/ Save

SpecRender == InitRender /\ [][NextRender]_vars

(* render is a sequential function: a step that can be taken is taken *)
LiveRender == SpecRender /\ WF_vars(NextRender)

----------------------------------------------------------------------------
(* Claims about Color += *)

SatSum(a, b) == IF a + b > 255 THEN 255 ELSE a + b

(* C6: += is saturating on each of the four channels independently: the     *)
(* resulting channel is min(255, a + b), never the wrapped sum, and stays   *)
(* within 8 bits, the boundary a + b = 255 included.                        *)
C6_SaturatingAdd ==
    [][pc = "add" =>
          /\ lhs'.r = SatSum(lhs.r, rhs.r)
          /\ lhs'.g = SatSum(lhs.g, rhs.g)
          /\ lhs'.b = SatSum(lhs.b, rhs.b)
          /\ lhs'.a = SatSum(lhs.a, rhs.a)
          /\ \A c \in {lhs'.r, lhs'.g, lhs'.b, lhs'.a} : c \in 0..U8_MAX]_vars

C6_Witness ==
    /\ pc = "added"
    /\ rhs = Color_new(10, 0, 0, 0)
    /\ lhs = Color_new(255, 0, 0, 0)

----------------------------------------------------------------------------
(* Claims about Sphere::intersect *)

Solutions == {t \in ParamRange : DistSqAt(ray, t, sphere.origin) = sphere.radius * sphere.radius}
SetMin(S) == CHOOSE m \in S : \A n \in S : m <= n
SetMax(S) == CHOOSE m \in S : \A n \in S : m >= n

(* C10: when the squared perpendicular distance does not exceed radius^2,   *)
(* of the two intersection parameters t0 <= t1: both negative gives no hit, *)
(* t0 negative and t1 non-negative reports t1, otherwise t0 is reported; a  *)
(* reported distance is >= 0 and is the smallest non-negative intersection  *)
(* parameter; beyond radius^2 there is no hit.                              *)
C10_SphereSelection ==
    pc = "intersected" =>
        IF ClosestSq(ray, sphere.origin) > sphere.radius * sphere.radius
        THEN hit = None
        ELSE /\ Solutions # {}
             /\ LET t0 == SetMin(Solutions)
                    t1 == SetMax(Solutions)
                IN  /\ (t0 < 0 /\ t1 < 0) => hit = None
                    /\ (t0 < 0 /\ t1 >= 0) => (hit # None /\ hit.val.distance = t1)
                    /\ t0 >= 0 => (hit # None /\ hit.val.distance = t0)
             /\ hit # None =>
                    /\ hit.val.distance >= 0
                    /\ hit.val.distance = SetMin({t \in Solutions : t >= 0})
                    /\ hit.val.point = Add(ray.origin, Scale(ray.direction, hit.val.distance))

C10_Witness ==
    /\ pc = "intersected"
    /\ hit # None
    /\ SetMin(Solutions) < 0
    /\ hit.val.distance = SetMax(Solutions)
    /\ hit.val.distance > 0

----------------------------------------------------------------------------
(* Claims about Scene::trace *)

Intersecting == {i \in 1..Len(scene.elements) : Shape_intersect(scene.elements[i].shape, ray) # None}
DistanceOf(i) == Shape_intersect(scene.elements[i].shape, ray).val.distance

(* C1: when trace returns a pair, the hit's distance is the minimum over    *)
(* the distances of all renderables whose shape intersects the ray, and the *)
(* renderable is the first in iteration order attaining it.                 *)
C1_TraceNearestFirst ==
    (pc = "traced" /\ object # None) =>
        /\ Intersecting # {}
        /\ \A i \in Intersecting : object.val.hit.distance <= DistanceOf(i)
        /\ LET first == SetMin({i \in Intersecting : DistanceOf(i) = object.val.hit.distance})
           IN  /\ object.val.renderable = scene.elements[first]
               /\ object.val.hit = Shape_intersect(scene.elements[first].shape, ray).val

C1_Witness ==
    /\ pc = "traced"
    /\ object # None
    /\ \E i, j \in Intersecting :
          /\ i < j
          /\ DistanceOf(i) = DistanceOf(j)
          /\ DistanceOf(i) = object.val.hit.distance
          /\ scene.elements[i] # scene.elements[j]
          /\ object.val.renderable = scene.elements[i]

(* C2: trace returns none if and only if no renderable's shape intersects   *)
(* the ray, whatever the distance of a hit (f64::MAX or above included).    *)
C2_TraceNoneIffNoHit ==
    pc = "traced" => (object = None <=> Intersecting = {})

----------------------------------------------------------------------------
(* Claims about Scene::get_color *)

(* C3: get_color with a hit and depth >= max_depth returns pure black       *)
(* (0, 0, 0, 255) whatever the lights, the material and the sky color, and  *)
(* traces no shadow ray and no reflection ray; with max_depth = 0 every     *)
(* pixel whose primary ray hits geometry is black.                          *)
C3_BlackAtMaxDepth ==
    /\ (pc = "return" /\ Top.hit_obj # None /\ Top.depth >= max_depth) =>
          /\ ret = Color_new(0, 0, 0, 255)
          /\ Top.traces = 0
          /\ Top.calls = 0
    /\ (pc = "done" /\ max_depth = 0 /\ object # None) => ret = Color_new(0, 0, 0, 255)

C3_Witness ==
    /\ pc = "return"
    /\ Top.hit_obj # None
    /\ Top.depth >= max_depth
    /\ max_depth > 0
    /\ Top.hit_obj.val.renderable.material.reflectiveness > 0
    /\ Len(scene.lights) > 0
    /\ ret = Color_new(0, 0, 0, 255)

(* C4: get_color with no hit returns exactly sky_color, all four channels,  *)
(* for every depth and max_depth, depth >= max_depth included.              *)
C4_SkyWhenNoHit ==
    /\ (pc = "return" /\ Top.hit_obj = None) => ret = scene.sky_color
    /\ (pc = "done" /\ object = None) => ret = scene.sky_color

C4_Witness ==
    /\ pc = "return"
    /\ Top.hit_obj = None
    /\ Top.depth >= max_depth
    /\ scene.sky_color.a # 255
    /\ ret = scene.sky_color

ShadowHits(s) ==
    {Shape_intersect(scene.elements[i].shape, s.light_ray).val.distance :
        i \in {j \in 1..Len(scene.elements) :
                  Shape_intersect(scene.elements[j].shape, s.light_ray) # None}}

(* C5 as stated: a light's brightness is set to zero exactly when its       *)
(* shadow ray hits some renderable strictly closer than the light's         *)
(* reported distance; otherwise the light keeps its full brightness.        *)
C5_ZeroedIffStrictlyCloser ==
    shadow # None =>
        LET s == shadow.val
            light_distance == Light_get_distance(s.light, s.point)
        IN  IF \E d \in ShadowHits(s) : d < light_distance
            THEN s.light_brightness = 0
            ELSE s.light_brightness = s.full /\ s.full > 0

(* C5 amended: a light's brightness is set to zero exactly when Scene.trace *)
(* of its shadow ray returns a hit (some renderable intersects the shadow   *)
(* ray below f64::MAX) whose distance is less than or equal to the light's  *)
(* reported distance; otherwise the light keeps its full brightness.        *)
C5_ZeroedIffNotFarther ==
    shadow # None =>
        LET s == shadow.val
            light_distance == Light_get_distance(s.light, s.point)
        IN  IF \E d \in ShadowHits(s) : d < F64_MAX /\ d <= light_distance
            THEN s.light_brightness = 0
            ELSE s.light_brightness = s.full /\ s.full > 0

C5_Witness ==
    /\ shadow # None
    /\ LET s == shadow.val
           light_distance == Light_get_distance(s.light, s.point)
       IN  /\ s.light.kind = "POINT"
           /\ \E d \in ShadowHits(s) : d = light_distance
           /\ \A d \in ShadowHits(s) : d >= light_distance
           /\ s.full > 0
           /\ s.light_brightness = 0

(* what holds of the invocations of get_color on the stack *)
C8_Bounded ==
    /\ invocations <= max_depth + 1
    /\ Len(stack) <= invocations
    /\ \A i \in 1..Len(stack) :
          /\ stack[i].depth = i - 1
          /\ stack[i].depth <= max_depth
          /\ stack[i].calls <= 1
          /\ i < Len(stack) => stack[i].calls = 1
          /\ stack[i].calls = 1 =>
                /\ stack[i].hit_obj # None
                /\ stack[i].depth < max_depth
                /\ stack[i].hit_obj.val.renderable.material.reflectiveness > 0

(* an upper bound on the number of steps get_color has left: the invocations *)
(* still allowed, each with its light loop, its last step and its return     *)
FrameCost == Len(scene.lights) + 2
Rank ==
    IF pc = "prime" THEN 1 + (max_depth + 1) * FrameCost
    ELSE IF pc = "done" THEN 0
    ELSE (max_depth + 1 - invocations) * FrameCost
         + (Len(stack) - 1)
         + (IF pc = "call" THEN (Len(scene.lights) + 1 - Top.light) + 2 ELSE 1)

(* the guards of the steps of get_color: each step assigns every variable, *)
(* so a step can be taken exactly when its guard holds                     *)
CanStep ==
    \/ AtPrimaryRay \/ AtSky \/ AtBlack \/ AtLight \/ AtDiffuse \/ AtReflect
    \/ AtReturnToCaller \/ AtReturnToRender

(* C8: the recursion of get_color started at depth 0 terminates: an         *)
(* invocation makes at most one recursive call, with depth + 1, and only    *)
(* when the ray hit geometry, depth < max_depth and reflectiveness > 0;     *)
(* depth never exceeds max_depth (so depth + 1 stays within 8 bits) and a   *)
(* primary ray causes at most max_depth + 1 invocations.  Every step lowers *)
(* the rank, which stays >= 0, and a step can be taken until the primary    *)
(* call has returned.                                                       *)
C8_RecursionTerminates ==
    [][/\ C8_Bounded /\ C8_Bounded'
       /\ Rank' < Rank
       /\ Rank' >= 0
       /\ (pc' # "done" => CanStep')]_vars

C8_Witness ==
    /\ pc = "done"
    /\ max_depth = U8_MAX
    /\ invocations = U8_MAX + 1

(* C9: every colour get_color returns for a ray that hit geometry has       *)
(* alpha 255, at every depth, whatever the alpha of the sky, the material   *)
(* and the lights; only when the top-level ray has no hit does the result   *)
(* carry the sky color's alpha.                                             *)
C9_OpaqueHitColor ==
    /\ (pc = "return" /\ Top.hit_obj # None) => ret.a = 255
    /\ pc = "done" => IF object # None THEN ret.a = 255 ELSE ret.a = scene.sky_color.a

C9_Witness ==
    /\ pc = "return"
    /\ Top.hit_obj # None
    /\ Top.reflected = Some(scene.sky_color)
    /\ scene.sky_color.a < 255
    /\ Top.hit_obj.val.renderable.material.base_color.a < 255
    /\ ret.a = 255

----------------------------------------------------------------------------
(* Claims about render *)

Grid == (0..(scene.camera.width - 1)) \X (0..(scene.camera.height - 1))

====
